---- MODULE Spec2Model ----
(***************************************************************************)
(* A model of tables_generator.py: TableGenerator regenerates the block    *)
(* between two marker literals of every README.md below the wallpapers     *)
(* directory with a Markdown table of image previews.                      *)
(*                                                                         *)
(* A Python str is modelled as a sequence of characters, each character a  *)
(* one-character TLA+ string (a non-ASCII character is the atom "uXXXX").  *)
(* An optional value (a str or None) is a sequence of zero or one values.  *)
(***************************************************************************)
EXTENDS Integers, Sequences, FiniteSets, TLC

VARIABLES
    config,   \* the attributes __init__ reads from config.yml
    fs,       \* the entries of wallpapers_dir, in iterdir() order
    fs0,      \* fs as it was before the program ran
    reads,    \* per entry: how many times its README.md was read
    writes,   \* per entry: how many times its README.md was written
    loc,      \* the locals of the latest process_directory call
    calls,    \* how many process_directory calls were made
    pc,       \* where main()/run() is: "idle", "running", "done", "failed"
    idx,      \* the position of run()'s for loop in fs
    error,    \* the position whose processing raised, 0 when nothing raised
    tpc,      \* where the table pipeline is: "start", "files", "table", "block"
    dir_entries, \* the entries of the directory the table pipeline lists
    image_files, \* the result of _find_image_files
    table,    \* the result of _generate_table
    block     \* the result of _build_generated_block

vars == <<config, fs, fs0, reads, writes, loc, calls, pc, idx, error,
          tpc, dir_entries, image_files, table, block>>

----------------------------------------------------------------------------
(* Bounds of the model. *)

MaxLen == 4      \* longest README.md text drawn in Init
MaxFiles == 4    \* most image files in a directory
MaxCols == 3     \* largest column count
MaxCalls == 2    \* most process_directory calls on one directory
MaxDirs == 3     \* most entries of wallpapers_dir

----------------------------------------------------------------------------
(* Python values. *)

None == <<>>
Some(v) == <<v>>
IsNone(o) == Len(o) = 0
Val(o) == o[1]

Min(a, b) == IF a < b THEN a ELSE b
Max(a, b) == IF a > b THEN a ELSE b

NL == "\n"

\* The printable ASCII characters in code point order, from 32 (space); the double
\* quote, the backslash and the backtick are the atoms "dquote", "bslash", "btick".
Ascii ==
    <<" ", "!", "dquote", "#", "$", "%", "&", "'", "(", ")", "*", "+", ",", "-",
      ".", "/", "0", "1", "2", "3", "4", "5", "6", "7", "8", "9", ":", ";",
      "<", "=", ">", "?", "@", "A", "B", "C", "D", "E", "F", "G", "H", "I",
      "J", "K", "L", "M", "N", "O", "P", "Q", "R", "S", "T", "U", "V", "W",
      "X", "Y", "Z", "[", "bslash", "]", "^", "_", "btick", "a", "b", "c", "d", "e",
      "f", "g", "h", "i", "j", "k", "l", "m", "n", "o", "p", "q", "r", "s",
      "t", "u", "v", "w", "x", "y", "z", "{", "|", "}", "~">>

\* ord(c) of a printable ASCII character.
Ord(c) == 31 + (CHOOSE i \in 1..Len(Ascii) : Ascii[i] = c)

\* str.lower() on one character.
LowerChar(c) ==
    IF \E i \in 1..Len(Ascii) : Ascii[i] = c /\ 31 + i >= 65 /\ 31 + i <= 90
    THEN Ascii[Ord(c) + 32 - 31]
    ELSE c

\* str.lower()
Lower(s) == [i \in 1..Len(s) |-> LowerChar(s[i])]

\* Python slice index normalisation for a sequence of length n.
SliceIndex(i, n) == IF i < 0 THEN Max(n + i, 0) ELSE Min(i, n)

\* s[a:b]
Slice(s, a, b) == SubSeq(s, SliceIndex(a, Len(s)) + 1, SliceIndex(b, Len(s)))

RECURSIVE FindFrom(_, _, _)
FindFrom(s, sub, i) ==
    IF i + Len(sub) > Len(s) THEN -1
    ELSE IF SubSeq(s, i + 1, i + Len(sub)) = sub THEN i
    ELSE FindFrom(s, sub, i + 1)

\* str.find(sub): the lowest 0-based index of sub in s, -1 when there is none.
Find(s, sub) == FindFrom(s, sub, 0)

RECURSIVE Join(_, _)
\* sep.join(list)
Join(list, sep) ==
    IF list = <<>> THEN <<>>
    ELSE IF Len(list) = 1 THEN list[1]
    ELSE list[1] \o sep \o Join(Tail(list), sep)

RECURSIVE LexLess(_, _)
\* s < t for two str (code point order), the order list.sort uses.
LexLess(s, t) ==
    IF t = <<>> THEN FALSE
    ELSE IF s = <<>> THEN TRUE
    ELSE IF Head(s) # Head(t) THEN Ord(Head(s)) < Ord(Head(t))
    ELSE LexLess(Tail(s), Tail(t))

RECURSIVE Repeat(_, _)
\* [v] * n
Repeat(v, n) == IF n <= 0 THEN <<>> ELSE <<v>> \o Repeat(v, n - 1)

----------------------------------------------------------------------------
(* TableGenerator. *)

README_NAME == <<"R", "E", "A", "D", "M", "E", ".", "m", "d">>

\* The notice _generate_table returns for a directory without images.
Placeholder ==
    <<"_", "(", "u0412", " ", "u044D", "u0442", "u043E", "u0439", " ",
      "u0434", "u0438", "u0440", "u0435", "u043A", "u0442", "u043E", "u0440",
      "u0438", "u0438", " ", "u043D", "u0435", "u0442", " ", "u0438", "u0437",
      "u043E", "u0431", "u0440", "u0430", "u0436", "u0435", "u043D", "u0438",
      "u0439", ")", "_">>

\* A locator that reports not-found only when both markers are missing.
FindReadmeWithMarkersBothMissing(content, opening_marker, closing_marker) ==
    LET start_index == Find(content, opening_marker)
        end_index == Find(content, closing_marker)
        end_index2 == end_index + Len(closing_marker)
    IN  IF start_index = -1 /\ end_index = -1
        THEN [found |-> FALSE, before_text |-> <<>>,
              generated_block |-> <<>>, after_text |-> <<>>]
        ELSE [found |-> TRUE,
              before_text |-> Slice(content, 0, start_index),
              generated_block |-> Slice(content, start_index, end_index2),
              after_text |-> Slice(content, end_index2, Len(content))]

\* A locator that does not move end_index past the closing marker.
FindReadmeWithMarkersShortEnd(content, opening_marker, closing_marker) ==
    LET start_index == Find(content, opening_marker)
        end_index == Find(content, closing_marker)
    IN  IF start_index = -1 \/ end_index = -1
        THEN [found |-> FALSE, before_text |-> <<>>,
              generated_block |-> <<>>, after_text |-> <<>>]
        ELSE [found |-> TRUE,
              before_text |-> Slice(content, 0, start_index),
              generated_block |-> Slice(content, start_index, end_index),
              after_text |-> Slice(content, end_index, Len(content))]

\* _find_readme_with_markers, on the text read from README.md.
FindReadmeWithMarkers(content, opening_marker, closing_marker) ==
    LET start_index == Find(content, opening_marker)
        end_index == Find(content, closing_marker)
        end_index2 == end_index + Len(closing_marker)
    IN  IF start_index = -1 \/ end_index = -1
        THEN [found |-> FALSE, before_text |-> <<>>,
              generated_block |-> <<>>, after_text |-> <<>>]
        ELSE [found |-> TRUE,
              before_text |-> Slice(content, 0, start_index),
              generated_block |-> Slice(content, start_index, end_index2),
              after_text |-> Slice(content, end_index2, Len(content))]

RECURSIVE RFindDot(_, _)
\* name.rfind("."), scanning from 0-based index i down.
RFindDot(name, i) ==
    IF i < 0 THEN -1
    ELSE IF name[i + 1] = "." THEN i
    ELSE RFindDot(name, i - 1)

\* pathlib's PurePath.suffix of a file name.
Suffix(name) ==
    LET i == RFindDot(name, Len(name) - 1)
    IN  IF 0 < i /\ i < Len(name) - 1 THEN Slice(name, i, Len(name)) ELSE <<>>

RECURSIVE SortByName(_)
\* list.sort(key=lambda p: p.name) of entries with distinct names.
SortByName(names) ==
    IF names = {} THEN <<>>
    ELSE LET m == CHOOSE x \in names : \A y \in names \ {x} : LexLess(x, y)
         IN  <<m>> \o SortByName(names \ {m})

\* _find_image_files: the names of the listed files with an allowed
\* extension, sorted by name.
FindImageFiles(entries, allowed_extensions) ==
    SortByName({e.name : e \in
        {x \in entries :
            /\ x.is_file
            /\ \E k \in 1..Len(allowed_extensions) :
                   allowed_extensions[k] = Lower(Suffix(x.name))}})

\* One cell of the table: [![preview](rel_path)](rel_path)
Cell(base_path, name) ==
    LET rel_path == base_path \o <<"/">> \o name
    IN  <<"[", "!", "[", "p", "r", "e", "v", "i", "e", "w", "]", "(">>
        \o rel_path \o <<")", "]", "(">> \o rel_path \o <<")">>

\* "| " + " | ".join(cells) + " |"
RowText(cells) == <<"|", " ">> \o Join(cells, <<" ", "|", " ">>) \o <<" ", "|">>

\* A _generate_table that leaves the last row short.
PadRowNoPadding(current_row, columns) == current_row

RECURSIVE PadRow(_, _)
\* while len(current_row) < columns: current_row.append(" ")
PadRow(current_row, columns) ==
    IF Len(current_row) < columns
    THEN PadRow(Append(current_row, <<" ">>), columns)
    ELSE current_row

RECURSIVE TableLoopInsertFirst(_, _, _, _, _)
\* A loop that puts each cell at the front of the current row.
TableLoopInsertFirst(image_files_, base_path, columns, rows, current_row) ==
    IF image_files_ = <<>>
    THEN [rows |-> rows, current_row |-> current_row]
    ELSE LET row == <<Cell(base_path, Head(image_files_))>> \o current_row
         IN  IF Len(row) = columns
             THEN TableLoopInsertFirst(Tail(image_files_), base_path, columns,
                                       Append(rows, RowText(row)), <<>>)
             ELSE TableLoopInsertFirst(Tail(image_files_), base_path, columns,
                                       rows, row)

RECURSIVE TableLoop(_, _, _, _, _)
\* The for loop of _generate_table: the rows and the current row after it.
TableLoop(image_files_, base_path, columns, rows, current_row) ==
    IF image_files_ = <<>>
    THEN [rows |-> rows, current_row |-> current_row]
    ELSE LET row == Append(current_row, Cell(base_path, Head(image_files_)))
         IN  IF Len(row) = columns
             THEN TableLoop(Tail(image_files_), base_path, columns,
                            Append(rows, RowText(row)), <<>>)
             ELSE TableLoop(Tail(image_files_), base_path, columns, rows, row)

HiddenHeader(columns) == RowText(Repeat(<<>>, columns))

HeaderSeparator(columns) == RowText(Repeat(<<":", "-", "-", "-", ":">>, columns))

\* A _generate_table without the early return for an empty list.
GenerateTableNoEmptyCheck(image_files_, base_path, columns) ==
    LET after == TableLoop(image_files_, base_path, columns, <<>>, <<>>)
        rows == IF after.current_row # <<>>
                THEN Append(after.rows, RowText(PadRow(after.current_row, columns)))
                ELSE after.rows
    IN  HiddenHeader(columns) \o <<NL>> \o HeaderSeparator(columns)
        \o <<NL>> \o Join(rows, <<NL>>)

\* _generate_table
GenerateTable(image_files_, base_path, columns) ==
    IF image_files_ = <<>> THEN Placeholder
    ELSE LET after == TableLoop(image_files_, base_path, columns, <<>>, <<>>)
             rows == IF after.current_row # <<>>
                     THEN Append(after.rows,
                                 RowText(PadRow(after.current_row, columns)))
                     ELSE after.rows
         IN  HiddenHeader(columns) \o <<NL>> \o HeaderSeparator(columns)
             \o <<NL>> \o Join(rows, <<NL>>)

RECURSIVE Truthy(_)
\* A filter on truthiness (if part) instead of on None (if part is not None).
Truthy(parts) ==
    IF parts = <<>> THEN <<>>
    ELSE IF IsNone(Head(parts)) \/ Val(Head(parts)) = <<>> THEN Truthy(Tail(parts))
    ELSE <<Val(Head(parts))>> \o Truthy(Tail(parts))

\* The parts of the list that are not None, unwrapped.
RECURSIVE NotNone(_)
NotNone(parts) ==
    IF parts = <<>> THEN <<>>
    ELSE IF IsNone(Head(parts)) THEN NotNone(Tail(parts))
    ELSE <<Val(Head(parts))>> \o NotNone(Tail(parts))

\* _build_generated_block
BuildGeneratedBlock(table_, cfg) ==
    LET parts == <<Some(cfg.opening_marker), cfg.header_text, Some(<<>>),
                   Some(table_), Some(<<>>), cfg.footer_text,
                   Some(cfg.closing_marker)>>
    IN  Join(NotNone(parts), <<NL>>)

\* base_path of process_directory: "/" + wallpapers_dir.name + "/" + the
\* directory's path relative to wallpapers_dir (its name: a direct child).
BasePath(cfg, name) == <<"/">> \o cfg.wallpapers_dir_name \o <<"/">> \o name

\* directory.iterdir() of a subdirectory: its entries and its README.md.
Listing(d) ==
    d.entries \cup (IF IsNone(d.readme) THEN {}
                    ELSE {[name |-> README_NAME, is_file |-> TRUE]})

NoLocals ==
    [called |-> FALSE, content |-> None, found |-> FALSE,
     before_text |-> <<>>, generated_block |-> <<>>, after_text |-> <<>>,
     table |-> <<>>, new_generated_block |-> <<>>, new_content |-> <<>>]

\* process_directory on subdirectory d: whether it raised, whether it read
\* and wrote README.md, the README.md it leaves and its locals.
ProcessDirectory(cfg, d) ==
    IF IsNone(d.readme)
    THEN [raised |-> FALSE, read |-> FALSE, wrote |-> FALSE,
          readme |-> d.readme, loc |-> [NoLocals EXCEPT !.called = TRUE]]
    ELSE IF d.fault = "read"
    THEN [raised |-> TRUE, read |-> FALSE, wrote |-> FALSE,
          readme |-> d.readme, loc |-> [NoLocals EXCEPT !.called = TRUE]]
    ELSE
    LET content == Val(d.readme)
        r == FindReadmeWithMarkers(content, cfg.opening_marker,
                                   cfg.closing_marker)
        found_loc == [NoLocals EXCEPT !.called = TRUE,
                         !.content = Some(content),
                         !.found = r.found,
                         !.before_text = r.before_text,
                         !.generated_block = r.generated_block,
                         !.after_text = r.after_text]
    IN  IF ~r.found
        THEN [raised |-> FALSE, read |-> TRUE, wrote |-> FALSE,
              readme |-> d.readme, loc |-> found_loc]
        ELSE
        LET files == FindImageFiles(Listing(d), cfg.allowed_extensions)
            base_path == BasePath(cfg, d.name)
            table_ == GenerateTable(files, base_path, cfg.columns)
            new_generated_block == BuildGeneratedBlock(table_, cfg)
            new_content == r.before_text \o new_generated_block \o r.after_text
            all_loc == [found_loc EXCEPT !.table = table_,
                           !.new_generated_block = new_generated_block,
                           !.new_content = new_content]
        IN  IF d.fault = "write"
            THEN [raised |-> TRUE, read |-> TRUE, wrote |-> FALSE,
                  readme |-> d.readme, loc |-> all_loc]
            ELSE [raised |-> FALSE, read |-> TRUE, wrote |-> TRUE,
                  readme |-> Some(new_content), loc |-> all_loc]

\* config.get(key, ""): a key of config.yml is absent, or present with a value
\* that may be null.
ConfigGet(key, default) == IF key.present THEN key.value ELSE Some(default)

\* __init__: the attributes read from the loaded config.yml.
TableGeneratorInit(raw) ==
    [wallpapers_dir_name |-> raw.wallpapers_dir_name,
     exclude_dirs |-> raw.exclude_dirs,
     allowed_extensions |->
         [i \in 1..Len(raw.allowed_extensions) |-> Lower(raw.allowed_extensions[i])],
     opening_marker |-> raw.opening_marker,
     closing_marker |-> raw.closing_marker,
     columns |-> raw.columns,
     header_text |-> ConfigGet(raw.header, <<>>),
     footer_text |-> ConfigGet(raw.footer, <<>>)]

----------------------------------------------------------------------------
(* The inputs the specifications draw from. *)

Digits == <<"1", "2", "3", "4", "5", "6", "7", "8", "9">>

\* The k-th image file of a directory: 1.png, 2.JPG, 3.png, ...
FileName(k) ==
    <<Digits[k]>> \o (IF k % 2 = 1 THEN <<".", "p", "n", "g">>
                                   ELSE <<".", "J", "P", "G">>)

\* A directory's entries besides README.md: the image files numbered in S and
\* a subdirectory whose name ends in .png.
Entries(S) ==
    {[name |-> FileName(k), is_file |-> TRUE] : k \in S}
    \cup {[name |-> <<"0", ".", "p", "n", "g">>, is_file |-> FALSE]}

\* The header and footer keys of config.yml: absent, null, or a text.
OptionalKeys ==
    {[present |-> FALSE, value |-> None],
     [present |-> TRUE, value |-> None],
     [present |-> TRUE, value |-> Some(<<"h">>)]}

RawConfig(open, close, cols, header, footer) ==
    [wallpapers_dir_name |-> <<"w">>,
     exclude_dirs |-> {<<"e">>},
     allowed_extensions |-> <<<<".", "P", "N", "G">>, <<".", "j", "p", "g">>>>,
     opening_marker |-> open,
     closing_marker |-> close,
     columns |-> cols,
     header |-> header,
     footer |-> footer]

DirName == <<"d">>

----------------------------------------------------------------------------
(* The table pipeline of process_directory, on one directory listing:      *)
(* _find_image_files, then _generate_table, then _build_generated_block.   *)

InitTable ==
    /\ \E cols \in 1..MaxCols, header \in OptionalKeys, footer \in OptionalKeys :
           config = TableGeneratorInit(
                        RawConfig(<<"<">>, <<">">>, cols, header, footer))
    /\ \E S \in SUBSET (1..MaxFiles) :
           dir_entries = Entries(S)
                         \cup {[name |-> README_NAME, is_file |-> TRUE]}
    /\ tpc = "start"
    /\ image_files = <<>>
    /\ table = <<>>
    /\ block = <<>>
    /\ fs = <<>>
    /\ fs0 = <<>>
    /\ reads = <<>>
    /\ writes = <<>>
    /\ loc = NoLocals
    /\ calls = 0
    /\ pc = "idle"
    /\ idx = 0
    /\ error = 0

FindImageFilesCall ==
    /\ tpc = "start"
    /\ image_files' = FindImageFiles(dir_entries, config.allowed_extensions)
    /\ tpc' = "files"
    /\ UNCHANGED <<config, fs, fs0, reads, writes, loc, calls, pc, idx, error,
                   dir_entries, table, block>>

GenerateTableCall ==
    /\ tpc = "files"
    /\ table' = GenerateTable(image_files, BasePath(config, DirName),
                              config.columns)
    /\ tpc' = "table"
    /\ UNCHANGED <<config, fs, fs0, reads, writes, loc, calls, pc, idx, error,
                   dir_entries, image_files, block>>

BuildGeneratedBlockCall ==
    /\ tpc = "table"
    /\ block' = BuildGeneratedBlock(table, config)
    /\ tpc' = "block"
    /\ UNCHANGED <<config, fs, fs0, reads, writes, loc, calls, pc, idx, error,
                   dir_entries, image_files, table>>

NextTable ==
    \/ FindImageFilesCall
    \/ GenerateTableCall
    \/ BuildGeneratedBlockCall

SpecTable == InitTable /\ [][NextTable]_vars

----------------------------------------------------------------------------
(* process_directory and run over the subdirectories of wallpapers_dir. *)

\* What a process_directory call on entry i leaves behind.
Processed(i, r) ==
    /\ fs' = [fs EXCEPT ![i].readme = r.readme]
    /\ reads' = [reads EXCEPT ![i] = @ + (IF r.read THEN 1 ELSE 0)]
    /\ writes' = [writes EXCEPT ![i] = @ + (IF r.wrote THEN 1 ELSE 0)]
    /\ loc' = r.loc
    /\ calls' = calls + 1

\* process_directory(subdir), called on its own.
ProcessDirectoryCall(i) ==
    /\ pc = "idle"
    /\ calls < MaxCalls
    /\ Processed(i, ProcessDirectory(config, fs[i]))
    /\ UNCHANGED <<config, fs0, pc, idx, error,
                   tpc, dir_entries, image_files, table, block>>

Excluded(d) == d.name \in config.exclude_dirs

\* main: TableGenerator(config_path).run() starts its loop.
RunStart ==
    /\ pc = "idle"
    /\ pc' = "running"
    /\ idx' = 1
    /\ UNCHANGED <<config, fs, fs0, reads, writes, loc, calls, error,
                   tpc, dir_entries, image_files, table, block>>

\* run: the entry is not a directory, or is an excluded one: continue.
RunSkip ==
    /\ pc = "running"
    /\ idx <= Len(fs)
    /\ ~fs[idx].is_dir \/ Excluded(fs[idx])
    /\ idx' = idx + 1
    /\ UNCHANGED <<config, fs, fs0, reads, writes, loc, calls, pc, error,
                   tpc, dir_entries, image_files, table, block>>

\* An except clause inside the loop that goes on with the next entry.
RunRaiseAndContinue ==
    /\ pc = "running"
    /\ idx <= Len(fs)
    /\ fs[idx].is_dir /\ ~Excluded(fs[idx])
    /\ ProcessDirectory(config, fs[idx]).raised
    /\ Processed(idx, ProcessDirectory(config, fs[idx]))
    /\ error' = idx
    /\ idx' = idx + 1
    /\ UNCHANGED <<config, fs0, pc,
                   tpc, dir_entries, image_files, table, block>>

\* run: process_directory(subdir) returns.
RunProcess ==
    /\ pc = "running"
    /\ idx <= Len(fs)
    /\ fs[idx].is_dir /\ ~Excluded(fs[idx])
    /\ ~ProcessDirectory(config, fs[idx]).raised
    /\ Processed(idx, ProcessDirectory(config, fs[idx]))
    /\ idx' = idx + 1
    /\ UNCHANGED <<config, fs0, pc, error,
                   tpc, dir_entries, image_files, table, block>>

\* run: process_directory(subdir) raises; the exception leaves the loop and
\* run, and main's except clause prints it.
RunRaise ==
    /\ pc = "running"
    /\ idx <= Len(fs)
    /\ fs[idx].is_dir /\ ~Excluded(fs[idx])
    /\ ProcessDirectory(config, fs[idx]).raised
    /\ Processed(idx, ProcessDirectory(config, fs[idx]))
    /\ error' = idx
    /\ pc' = "failed"
    /\ UNCHANGED <<config, fs0, idx,
                   tpc, dir_entries, image_files, table, block>>

\* run: the loop is over.
RunFinish ==
    /\ pc = "running"
    /\ idx > Len(fs)
    /\ pc' = "done"
    /\ UNCHANGED <<config, fs, fs0, reads, writes, loc, calls, idx, error,
                   tpc, dir_entries, image_files, table, block>>

\* The marker literals of the drawn configurations.
Markers == {<<"a">>, <<"b">>, <<"a", "b">>, <<"b", "a">>}

\* The characters of the drawn README.md texts.
Alphabet == {"a", "b", "x"}

Texts == UNION {[1..n -> Alphabet] : n \in 0..MaxLen}

Idle ==
    /\ loc = NoLocals
    /\ calls = 0
    /\ pc = "idle"
    /\ idx = 0
    /\ error = 0
    /\ tpc = "start"
    /\ dir_entries = {}
    /\ image_files = <<>>
    /\ table = <<>>
    /\ block = <<>>

\* One subdirectory, any README.md text, any pair of distinct markers.
InitDoc ==
    /\ \E open \in Markers, close \in Markers, header \in OptionalKeys :
           /\ open # close
           /\ config = TableGeneratorInit(
                  RawConfig(open, close, 2, header,
                            [present |-> FALSE, value |-> None]))
    /\ \E readme \in {None} \cup {Some(t) : t \in Texts}, S \in {{}, {1}} :
           fs = <<[name |-> DirName, is_dir |-> TRUE, readme |-> readme,
                   entries |-> Entries(S), fault |-> "none"]>>
    /\ fs0 = fs
    /\ reads = <<0>>
    /\ writes = <<0>>
    /\ Idle

NextDoc == \E i \in 1..Len(fs) : ProcessDirectoryCall(i)

SpecDoc == InitDoc /\ [][NextDoc]_vars

\* What an entry of wallpapers_dir may be: a plain file, an excluded
\* directory, or a directory without README.md, with a README.md without
\* markers or with a README.md with both markers, whose README.md may be
\* unreadable or unwritable.
EntryKinds ==
    {[kind |-> "f", readme |-> None, fault |-> "none"],
     [kind |-> "e", readme |-> Some(<<"a", "x", "b">>), fault |-> "none"]}
    \cup {[kind |-> "d", readme |-> readme, fault |-> fault] :
            readme \in {None, Some(<<"x">>), Some(<<"x", "a", "x", "b", "x">>)},
            fault \in {"none", "read", "write"}}

\* The entry of kind k at position i: f1, e2, d3, ...
RunEntry(i, k) ==
    [name |-> <<k.kind, Digits[i]>>,
     is_dir |-> k.kind # "f",
     readme |-> k.readme,
     entries |-> IF k.kind = "f" THEN {} ELSE Entries({1, 2}),
     fault |-> k.fault]

Init ==
    /\ config = [TableGeneratorInit(
                     RawConfig(<<"a">>, <<"b">>, 2,
                               [present |-> FALSE, value |-> None],
                               [present |-> FALSE, value |-> None]))
                 EXCEPT !.exclude_dirs = {<<"e", Digits[i]>> : i \in 1..MaxDirs}]
    /\ \E kinds \in [1..MaxDirs -> EntryKinds] :
           fs = [i \in 1..MaxDirs |-> RunEntry(i, kinds[i])]
    /\ fs0 = fs
    /\ reads = [i \in 1..MaxDirs |-> 0]
    /\ writes = [i \in 1..MaxDirs |-> 0]
    /\ Idle

Next ==
    \/ RunStart
    \/ RunSkip
    \/ RunProcess
    \/ RunRaise
    \/ RunFinish

Spec == Init /\ [][Next]_vars

----------------------------------------------------------------------------
(* Reading a text back: substrings, lines, rows and cells. *)

OccursAt(s, sub, p) ==
    /\ p >= 0
    /\ p + Len(sub) <= Len(s)
    /\ SubSeq(s, p + 1, p + Len(sub)) = sub

Occurs(s, sub) == \E p \in 0..Len(s) : OccursAt(s, sub, p)

FirstAt(s, sub) ==
    CHOOSE p \in 0..Len(s) :
        OccursAt(s, sub, p) /\ \A q \in 0..(p - 1) : ~OccursAt(s, sub, q)

RECURSIVE SplitOn(_, _)
SplitOn(s, sep) ==
    IF ~Occurs(s, sep) THEN <<s>>
    ELSE LET p == FirstAt(s, sep)
         IN  <<SubSeq(s, 1, p)>> \o SplitOn(SubSeq(s, p + Len(sep) + 1, Len(s)), sep)

Lines(text) == SplitOn(text, <<NL>>)

IsRow(line) ==
    /\ Len(line) >= 4
    /\ SubSeq(line, 1, 2) = <<"|", " ">>
    /\ SubSeq(line, Len(line) - 1, Len(line)) = <<" ", "|">>

RowCells(line) == SplitOn(SubSeq(line, 3, Len(line) - 2), <<" ", "|", " ">>)

TableRows(text) == SelectSeq(Lines(text), IsRow)

DataRows(text) == SubSeq(TableRows(text), 3, Len(TableRows(text)))

Ceil(l, c) == (l + c - 1) \div c

PaddingCell == <<" ">>

TableDone == tpc \in {"table", "block"}

----------------------------------------------------------------------------
(* Claims about _generate_table and _build_generated_block (SpecTable). *)

\* C6: for an item list of length L >= 0 and a column count C >= 1 the table
\* has exactly ceil(L / C) data rows, and the last data row has exactly C
\* cells: the real cells followed by the padding cells.
C6_GridPacking ==
    TableDone =>
        LET L == Len(image_files)
            C == config.columns
            data == DataRows(table)
        IN  /\ Len(data) = Ceil(L, C)
            /\ L > 0 =>
                 LET last == RowCells(data[Len(data)])
                     real == L - (Len(data) - 1) * C
                 IN  /\ Len(last) = C
                     /\ \A c \in 1..C :
                            IF c <= real THEN last[c] # PaddingCell
                            ELSE last[c] = PaddingCell

C6_Witness ==
    /\ TableDone
    /\ Len(image_files) > config.columns
    /\ Len(image_files) % config.columns # 0
    /\ config.columns >= 2

\* C7: the cell of the item at input position k (0-based) is in data row
\* floor(k / C) at column k mod C; a padding cell occurs only in the last data
\* row and only to the right of every real cell.
C7_RowMajor ==
    TableDone /\ image_files # <<>> =>
        LET L == Len(image_files)
            C == config.columns
            data == DataRows(table)
        IN  /\ \A k \in 0..(L - 1) :
                   /\ (k \div C) + 1 <= Len(data)
                   /\ (k % C) + 1 <= Len(RowCells(data[(k \div C) + 1]))
                   /\ RowCells(data[(k \div C) + 1])[(k % C) + 1]
                          = Cell(BasePath(config, DirName), image_files[k + 1])
            /\ \A r \in 1..Len(data) :
                   \A c \in 1..Len(RowCells(data[r])) :
                       RowCells(data[r])[c] = PaddingCell
                           => r = Len(data) /\ (r - 1) * C + (c - 1) >= L

C7_Witness ==
    /\ TableDone
    /\ config.columns = 3
    /\ Len(image_files) = 4

\* C8: for an empty item list the table is the placeholder notice, with no
\* hidden-header row, no separator row and no data row; for a non-empty list
\* it starts with a hidden-header row of exactly C empty cells, then a
\* separator row of exactly C ":---:" cells, and never holds the placeholder.
C8_PlaceholderOrPreamble ==
    TableDone =>
        LET C == config.columns
            lines == Lines(table)
        IN  IF image_files = <<>>
            THEN table = Placeholder /\ TableRows(table) = <<>>
            ELSE /\ Len(lines) >= 3
                 /\ IsRow(lines[1])
                 /\ RowCells(lines[1]) = [c \in 1..C |-> <<>>]
                 /\ IsRow(lines[2])
                 /\ RowCells(lines[2]) = [c \in 1..C |-> <<":", "-", "-", "-", ":">>]
                 /\ ~Occurs(table, Placeholder)

C8_Witness ==
    /\ TableDone
    /\ image_files = <<>>
    /\ config.columns >= 2

\* C9: the block is, joined by newlines and in this order, the opening
\* marker, the header text, an empty line, the table, an empty line, the
\* footer text and the closing marker; an empty header or footer still gives
\* a (blank) line, and only a component that is None is dropped as a line.
C9_BlockLayout ==
    tpc = "block" =>
        LET h == config.header_text
            f == config.footer_text
            header_line == IF IsNone(h) THEN <<>> ELSE Val(h) \o <<NL>>
            footer_line == IF IsNone(f) THEN <<>> ELSE Val(f) \o <<NL>>
            dropped == (IF IsNone(h) THEN 1 ELSE 0) + (IF IsNone(f) THEN 1 ELSE 0)
        IN  /\ block = config.opening_marker \o <<NL>> \o header_line \o <<NL>>
                       \o table \o <<NL>> \o <<NL>> \o footer_line
                       \o config.closing_marker
            /\ Len(Lines(block)) = 6 + Len(Lines(table)) - dropped
            /\ SubSeq(block, 1, Len(config.opening_marker)) = config.opening_marker
            /\ SubSeq(block, Len(block) - Len(config.closing_marker) + 1, Len(block))
                   = config.closing_marker

C9_Witness ==
    /\ tpc = "block"
    /\ IsNone(config.header_text)
    /\ config.footer_text = Some(<<>>)
    /\ image_files # <<>>

----------------------------------------------------------------------------
(* Claims about _find_readme_with_markers and process_directory (SpecDoc). *)

Open == config.opening_marker
Close == config.closing_marker

\* The latest process_directory call read README.md.
ReadDone == loc.called /\ ~IsNone(loc.content)

\* text = A + open + M + close + B with open at 0-based index i and close at
\* index j, and neither marker inside M.
Framed(text, i, j) ==
    /\ OccursAt(text, Open, i)
    /\ j >= i + Len(Open)
    /\ OccursAt(text, Close, j)
    /\ ~Occurs(SubSeq(text, i + Len(Open) + 1, j), Open)
    /\ ~Occurs(SubSeq(text, i + Len(Open) + 1, j), Close)

\* The locator's result is A, open + M + close, B.
SplitAt(text, i, j) ==
    /\ loc.found
    /\ loc.before_text = SubSeq(text, 1, i)
    /\ loc.generated_block = SubSeq(text, i + 1, j + Len(Close))
    /\ loc.after_text = SubSeq(text, j + Len(Close) + 1, Len(text))

\* Neither marker occurs in the text before its place in the frame.
FirstOccurrences(text, i, j) ==
    /\ \A q \in 0..(i - 1) : ~OccursAt(text, Open, q)
    /\ \A q \in 0..(j - 1) : ~OccursAt(text, Close, q)

\* C1: when the opening or the closing marker does not occur in the text,
\* the locator reports not-found and process_directory writes nothing: the
\* document is the same before and after.
C1_AbsentMarkerNoWrite ==
    /\ calls >= 1
    /\ ~IsNone(fs0[1].readme)
    /\ \/ ~Occurs(Val(fs0[1].readme), Open)
       \/ ~Occurs(Val(fs0[1].readme), Close)
    => /\ ~loc.found
       /\ loc.before_text = <<>>
       /\ loc.generated_block = <<>>
       /\ loc.after_text = <<>>
       /\ writes[1] = 0
       /\ fs[1].readme = fs0[1].readme

C1_Witness ==
    /\ calls >= 1
    /\ ~IsNone(fs0[1].readme)
    /\ Occurs(Val(fs0[1].readme), Open)
    /\ ~Occurs(Val(fs0[1].readme), Close)
    /\ Len(Val(fs0[1].readme)) >= 3

\* C2 as stated: for every text A + open + M + close + B whose markers do not
\* recur inside M, the locator returns prefix A, block open + M + close and
\* suffix B.
C2_SpanOfEveryFrame ==
    ReadDone =>
        LET text == Val(loc.content)
        IN  \A i \in {p \in 0..Len(text) : OccursAt(text, Open, p)} :
                \A j \in {p \in 0..Len(text) : OccursAt(text, Close, p)} :
                    Framed(text, i, j) => SplitAt(text, i, j)

\* C2 amended: for every text A + open + M + close + B whose markers do not
\* recur inside M and in which neither marker occurs anywhere before its
\* place in the frame (open before the end of A + open, close before the end
\* of A + open + M + close), the locator returns prefix A, block
\* open + M + close and suffix B.
C2_SpanOfFirstOccurrences ==
    ReadDone =>
        LET text == Val(loc.content)
        IN  \A i \in {p \in 0..Len(text) : OccursAt(text, Open, p)} :
                \A j \in {p \in 0..Len(text) : OccursAt(text, Close, p)} :
                    Framed(text, i, j) /\ FirstOccurrences(text, i, j)
                        => SplitAt(text, i, j)

C2_Witness ==
    /\ ReadDone
    /\ loc.found
    /\ \E i \in 1..Len(Val(loc.content)), j \in 1..Len(Val(loc.content)) :
           /\ Framed(Val(loc.content), i, j)
           /\ FirstOccurrences(Val(loc.content), i, j)
           /\ j > i + Len(Open)
           /\ j + Len(Close) < Len(Val(loc.content))

\* C3: whenever the locator reports found, with the markers in any order,
\* prefix + block + suffix is the text.
C3_PartsRebuildText ==
    ReadDone /\ loc.found =>
        loc.before_text \o loc.generated_block \o loc.after_text
            = Val(loc.content)

RECURSIVE Outside(_, _, _, _)
\* The characters of text at the 0-based positions p >= k that lie outside
\* the marker span [i, j): p < i or p >= j, each once, in order.
Outside(text, i, j, k) ==
    IF k >= Len(text) THEN <<>>
    ELSE (IF k < i \/ k >= j THEN <<text[k + 1]>> ELSE <<>>)
         \o Outside(text, i, j, k + 1)

\* C4: after a rewrite the new document is the original prefix, the new
\* block and the original suffix, and it holds every character that lay
\* before the first opening marker or after the first closing marker exactly
\* once, unchanged and in order.
C4_OutsideSpanKeptOnce ==
    calls = 1 /\ writes[1] = 1 =>
        LET text == Val(fs0[1].readme)
            i == FirstAt(text, Open)
            j == FirstAt(text, Close) + Len(Close)
            prefix == SubSeq(text, 1, i)
            suffix == SubSeq(text, j + 1, Len(text))
        IN  /\ Val(fs[1].readme) = prefix \o loc.new_generated_block \o suffix
            /\ prefix \o suffix = Outside(text, i, j, 0)

\* C5: a second process_directory call on the same directory, with the same
\* configuration and image files, leaves the document of the first call, for
\* every starting document that holds both markers.
C5_SecondRunChangesNothing ==
    /\ calls = 2
    /\ ~IsNone(fs0[1].readme)
    /\ Occurs(Val(fs0[1].readme), Open)
    /\ Occurs(Val(fs0[1].readme), Close)
    => fs[1].readme = loc.content

----------------------------------------------------------------------------
(* Claims about run (Spec). *)

\* process_directory raises on this entry: its README.md exists and cannot
\* be read, or holds both markers and cannot be written.
Raises(d) ==
    /\ ~IsNone(d.readme)
    /\ \/ d.fault = "read"
       \/ /\ d.fault = "write"
          /\ Occurs(Val(d.readme), Open)
          /\ Occurs(Val(d.readme), Close)

Visited(d) == d.is_dir /\ d.name \notin config.exclude_dirs

\* C10: the directories are processed one after another; when processing a
\* directory raises, the run stops there: the directories before it keep
\* their new documents, no later directory is read or written, and each
\* document is written at most once.
C10_StopsAtFirstError ==
    /\ \A i \in 1..Len(fs) : reads[i] <= 1 /\ writes[i] <= 1
    /\ \A i \in 1..Len(fs) :
           (pc = "running" /\ i >= idx) \/ pc = "idle"
               => reads[i] = 0 /\ writes[i] = 0 /\ fs[i] = fs0[i]
    /\ \A i \in 1..Len(fs) :
           pc # "idle" /\ i < idx =>
               /\ ~(Visited(fs0[i]) /\ Raises(fs0[i]))
               /\ fs[i].readme =
                      IF Visited(fs0[i])
                      THEN ProcessDirectory(config, fs0[i]).readme
                      ELSE fs0[i].readme
               /\ writes[i] = IF fs[i] # fs0[i] THEN 1 ELSE 0
    /\ error # 0 =>
           /\ pc = "failed"
           /\ idx = error
           /\ Visited(fs0[error]) /\ Raises(fs0[error])
           /\ \A i \in (error + 1)..Len(fs) :
                  reads[i] = 0 /\ writes[i] = 0 /\ fs[i] = fs0[i]
    /\ pc = "failed" => error # 0
    /\ pc = "done" => idx = Len(fs) + 1

C10_Witness ==
    /\ pc = "failed"
    /\ error = 2
    /\ writes[1] = 1
    /\ fs[1] # fs0[1]
    /\ fs0[error].fault = "write"
    /\ Visited(fs0[3]) /\ ~IsNone(fs0[3].readme)
    /\ Occurs(Val(fs0[3].readme), Open)

====
